---- MODULE Spec2Model ----
(***************************************************************************)
(* Domain configuration core of the cloud-document-converter extension:    *)
(* validateDomain / normalizeDomain / domainToUrlPatterns, the persisted   *)
(* customDomains list in chrome.storage.sync, and the asynchronous         *)
(* addCustomDomain / removeCustomDomain / loadDomainConfig operations, run *)
(* from several execution contexts (each with its own module instance, and *)
(* therefore its own DEFAULT_DOMAIN_CONFIG object).                        *)
(*                                                                         *)
(* Strings are sequences of one-character strings.                         *)
(***************************************************************************)
EXTENDS Integers, Sequences, FiniteSets, Bags, TLC

\* ------------------------------------------------------------------ bounds
\* number of execution contexts (options pages, background worker)
NumCtx == 2
\* number of calls that can be in flight at the same time (over all contexts)
MaxInFlight == 2
\* total number of public calls started in one behaviour
MaxOps == 3
\* length of the longest customDomains list found in storage at the start
MaxStored == 3
\* number of onDomainConfigChange subscriptions made
MaxSubs == 2

Ctx == 1..NumCtx
SubId == 1..MaxSubs

\* ------------------------------------------------------------- characters
UpperSeq == <<"A","B","C","D","E","F","G","H","I","J","K","L","M",
              "N","O","P","Q","R","S","T","U","V","W","X","Y","Z">>
LowerSeq == <<"a","b","c","d","e","f","g","h","i","j","k","l","m",
              "n","o","p","q","r","s","t","u","v","w","x","y","z">>
Upper == {UpperSeq[i] : i \in 1..Len(UpperSeq)}
Lower == {LowerSeq[i] : i \in 1..Len(LowerSeq)}
Alpha == Upper \cup Lower
Digit == {"0","1","2","3","4","5","6","7","8","9"}
AlNum == Alpha \cup Digit
WhiteSpace == {" ", "\t", "\n"}

\* String.prototype.toLowerCase, per character
toLowerChar(c) ==
  IF c \in Upper
    THEN LowerSeq[CHOOSE i \in 1..Len(UpperSeq) : UpperSeq[i] = c]
    ELSE c

toLowerCase(s) == [i \in 1..Len(s) |-> toLowerChar(s[i])]

\* String.prototype.trim
trim(s) ==
  LET keep == {i \in 1..Len(s) : s[i] \notin WhiteSpace}
  IN  IF keep = {} THEN <<>>
      ELSE SubSeq(s, CHOOSE i \in keep : \A j \in keep : i <= j,
                     CHOOSE i \in keep : \A j \in keep : j <= i)

\* String.prototype.includes
strIncludes(s, sub) ==
  \E i \in 1..(Len(s) - Len(sub) + 1) : SubSeq(s, i, i + Len(sub) - 1) = sub

\* the labels of s between its dots
RECURSIVE SplitDot(_)
SplitDot(s) ==
  IF \A i \in 1..Len(s) : s[i] # "."
    THEN <<s>>
    ELSE LET d == CHOOSE i \in 1..Len(s) :
                    s[i] = "." /\ \A j \in 1..(i-1) : s[j] # "."
         IN  <<SubSeq(s, 1, d - 1)>> \o SplitDot(SubSeq(s, d + 1, Len(s)))

\* [a-zA-Z0-9]([a-zA-Z0-9-]*[a-zA-Z0-9])?
IsLabel(l) ==
  /\ Len(l) >= 1
  /\ l[1] \in AlNum
  /\ l[Len(l)] \in AlNum
  /\ \A i \in 1..Len(l) : l[i] \in AlNum \cup {"-"}

\* [a-zA-Z]{2,}
IsTld(l) == Len(l) >= 2 /\ \A i \in 1..Len(l) : l[i] \in Alpha

\* domainRegex.test : label(\.label)*\.tld anchored at both ends
domainRegexTest(s) ==
  LET ls == SplitDot(s)
  IN  /\ Len(ls) >= 2
      /\ \A i \in 1..(Len(ls) - 1) : IsLabel(ls[i])
      /\ IsTld(ls[Len(ls)])

validateDomain(domain) ==
  LET trimmed == trim(domain)
  IN  IF trimmed = <<>> \/ strIncludes(trimmed, <<":","/","/">>)
                        \/ strIncludes(trimmed, <<"/">>)
        THEN FALSE
        ELSE domainRegexTest(trimmed)

\* variant of normalizeDomain that forgets toLowerCase
normalizeDomainTrimOnly(domain) == trim(domain)

normalizeDomain(domain) == toLowerCase(trim(domain))

domainToUrlPatterns(domain) ==
  << <<"h","t","t","p","s",":","/","/">> \o domain \o <<"/","*">>,
     <<"h","t","t","p","s",":","/","/","*",".">> \o domain \o <<"/","*">> >>

\* customDomains.flatMap(domainToUrlPatterns)
RECURSIVE flatMapPatterns(_)
flatMapPatterns(arr) ==
  IF arr = <<>> THEN <<>>
  ELSE domainToUrlPatterns(Head(arr)) \o flatMapPatterns(Tail(arr))

DEFAULT_DOMAINS ==
  << <<"f","e","i","s","h","u",".","c","n">>,
     <<"f","e","i","s","h","u",".","n","e","t">>,
     <<"l","a","r","k","s","u","i","t","e",".","c","o","m">>,
     <<"f","e","i","s","h","u","-","p","r","e",".","n","e","t">>,
     <<"l","a","r","k","o","f","f","i","c","e",".","c","o","m">>,
     <<"l","a","r","k","e","n","t","e","r","p","r","i","s","e",".","c","o","m">> >>

\* variant of getAllUrlPatterns that puts the custom patterns first
getAllUrlPatternsCustomFirst(customDomains) ==
  flatMapPatterns(customDomains) \o flatMapPatterns(DEFAULT_DOMAINS)

getAllUrlPatterns(customDomains) ==
  flatMapPatterns(DEFAULT_DOMAINS) \o flatMapPatterns(customDomains)

\* ------------------------------------------------------------------ arrays
\* Array.prototype.includes
includes(arr, x) == \E i \in 1..Len(arr) : arr[i] = x

\* Array.prototype.indexOf (0-based, -1 when absent)
indexOf(arr, x) ==
  IF includes(arr, x)
    THEN (CHOOSE i \in 1..Len(arr) :
            arr[i] = x /\ \A j \in 1..(i-1) : arr[j] # x) - 1
    ELSE -1

\* arr.splice(index, 1) : the array afterwards; a negative index counts from
\* the end
splice(arr, index) ==
  LET at == IF index < 0 THEN (IF Len(arr) + index < 0 THEN 0 ELSE Len(arr) + index)
                         ELSE index
  IN  IF at >= Len(arr) THEN arr
      ELSE SubSeq(arr, 1, at) \o SubSeq(arr, at + 2, Len(arr))

\* arr.push(x) : the array afterwards
push(arr, x) == Append(arr, x)

Count(arr, x) == Cardinality({i \in 1..Len(arr) : arr[i] = x})


\* ------------------------------------------------------------------ inputs
\* raw strings handed to addCustomDomain / removeCustomDomain; InA is what
\* InAraw normalizes to
InA      == <<"a",".","i","o">>
InAraw   == <<" ","A",".","i","o">>
InB      == <<"b",".","i","o">>
InBad    == <<"a","/","i","o">>
InFeishuRaw == <<"F","e","i","s","h","u",".","C","N"," ">>
Inputs == {InAraw, InB, InBad, InFeishuRaw}

\* normalizeDomain, validateDomain, domainToUrlPatterns and the built-in test
\* over the strings of the model, tabulated
NormalizedOf == [input \in Inputs |-> normalizeDomain(input)]
Domains == {NormalizedOf[input] : input \in Inputs}
\* what a stored customDomains list can hold: written by this code (Domains)
\* or not (any string)
StoredEntries == Domains \cup Inputs
ValidOf == [d \in StoredEntries |-> validateDomain(d)]
PatternsOf == [d \in Domains |-> domainToUrlPatterns(d)]
\* variant of the built-in test that never finds the domain
BuiltinOfNone == [d \in Domains |-> FALSE]
BuiltinOf == [d \in Domains |-> includes(DEFAULT_DOMAINS, d)]

\* variant of the filter that keeps every entry
RECURSIVE filterValidKeepsAll(_)
filterValidKeepsAll(arr) ==
  IF arr = <<>> THEN <<>>
  ELSE <<Head(arr)>> \o filterValidKeepsAll(Tail(arr))

\* config.customDomains.filter(validateDomain)
RECURSIVE filterValid(_)
filterValid(arr) ==
  IF arr = <<>> THEN <<>>
  ELSE (IF ValidOf[Head(arr)] THEN <<Head(arr)>> ELSE <<>>)
         \o filterValid(Tail(arr))

\* ------------------------------------------------------------------- state
VARIABLES
  storage,          \* chrome.storage.sync, key STORAGE_KEY: absent or a DomainConfig
  defaultCfg,       \* per context: DEFAULT_DOMAIN_CONFIG.customDomains (one shared array)
  grantedRequests,  \* origin lists of the chrome.permissions.request calls answered true
  requesting,       \* the addCustomDomain calls suspended at chrome.permissions.request
  setQueue,         \* the calls suspended at chrome.storage.sync.set, in the order issued
  started,          \* number of public calls started so far
  ctxUsed,          \* number of contexts that have had a call suspended
  last,             \* the call that returned in the last step, if one did
  listeners,        \* per context: the subscriptions whose listener is registered
                    \* with chrome.storage.onChanged, in registration order
  unsubscribed,     \* the subscriptions whose unsubscribe handle has been called
  delivered,        \* per subscription: the customDomains its callback was last
                    \* invoked with, NotYet before the first invocation
  page,             \* per context: the options page, its customDomains ref
  menus,            \* the context-menu items, by MenuItemId
  setups            \* the setupContextMenus invocations that have not finished,
                    \* in the order they started

vars == <<storage, defaultCfg, grantedRequests, requesting, setQueue, started,
          ctxUsed, last, listeners, unsubscribed, delivered, page, menus,
          setups>>

\* what only the background process changes
bg == <<menus, setups>>

\* what only the subscriptions and the options page change
ui == <<listeners, unsubscribed, delivered, page>>

Absent == [present |-> FALSE, customDomains |-> <<>>]

\* The frame of a call suspended after its load.  ref and own are the config
\* object it holds: the shared DEFAULT_DOMAIN_CONFIG of its context
\* ("default") or an object of its own.  seen, peers and fresh are history
\* fields, read by no operation:
\*   seen   the persisted config the call's load observed
\*   peers  (add) domains that concurrent adds which had loaded the same
\*          config have persisted since, and that no remove has persisted away
\*   fresh  (remove) the call started right after a successful add of the same
\*          domain returned, its own read succeeded, and no other call has
\*          written to storage since
Frame(op, c, normalized, config, fresh) ==
  [op |-> op, ctx |-> c, normalized |-> normalized,
   ref |-> config.ref, own |-> config.own,
   seen |-> config.seen, peers |-> {}, fresh |-> fresh]

\* a call suspended at the set: the config object is no longer read, value is
\* the customDomains handed to chrome.storage.sync.set
Pending(call, value) ==
  [op |-> call.op, ctx |-> call.ctx, normalized |-> call.normalized,
   value |-> value,
   seen |-> call.seen, peers |-> call.peers, fresh |-> call.fresh]

NotYet == [called |-> FALSE, customDomains |-> <<>>]

MenuItemId ==
  {"download_docx_as_markdown", "copy_docx_as_markdown", "view_docx_as_markdown"}

\* no item of that id exists.  readOk is a history field, read by no
\* operation: the load of the invocation that created the item succeeded
NoItem == [exists |-> FALSE, documentUrlPatterns |-> <<>>, readOk |-> TRUE]

\* an options page that is not open
Closed == [mounted |-> FALSE, ref |-> "own", own |-> <<>>]

NoReturn ==
  [op |-> "none", ctx |-> 1, normalized |-> <<>>, result |-> "", ret |-> <<>>,
   peers |-> {}, fresh |-> FALSE]

Init ==
  /\ storage = Absent
  /\ defaultCfg = [c \in Ctx |-> <<>>]
  /\ grantedRequests = {}
  /\ requesting = EmptyBag
  /\ setQueue = <<>>
  /\ started = 0
  /\ ctxUsed = 0
  /\ last = NoReturn
  /\ listeners = [c \in Ctx |-> <<>>]
  /\ unsubscribed = {}
  /\ delivered = [id \in SubId |-> NotYet]
  /\ page = [c \in Ctx |-> Closed]
  /\ menus = [id \in MenuItemId |-> NoItem]
  /\ setups = <<>>

InFlight == BagCardinality(requesting) + Len(setQueue)

\* A new call can start while fewer than MaxInFlight are suspended.  The
\* contexts are identical instances of the module and are numbered in the
\* order in which they first have a call suspended.  The result of a call is
\* taken by its caller (Deliver) before the next operation runs.
Begins(c) ==
  /\ last = NoReturn
  /\ InFlight < MaxInFlight
  /\ c <= ctxUsed + 1

\* the call suspends at an await for the first time
Suspends(c) ==
  /\ started < MaxOps
  /\ started' = started + 1
  /\ ctxUsed' = IF c > ctxUsed THEN c ELSE ctxUsed
  /\ last' = NoReturn

\* the call's promise settles: result is the message of the structured result
\* ("threw" when the promise rejects), ret the customDomains of a returned config
Outcome(call, result, ret) ==
  [op |-> call.op, ctx |-> call.ctx, normalized |-> call.normalized,
   result |-> result, ret |-> ret,
   peers |-> call.peers, fresh |-> call.fresh]

Returns(call, result, ret) == last' = Outcome(call, result, ret)

\* the call returns without having suspended after its load; it leaves no
\* trace in its context
ReturnsAtOnce(call, result, ret) ==
  /\ started < MaxOps
  /\ started' = started + 1
  /\ Returns(call, result, ret)
  /\ UNCHANGED <<requesting, ctxUsed>>

\* the history fields of a suspended call r once the set of the call w has
\* completed
AfterWrite(w, setOk, r) ==
  IF ~setOk THEN r
  ELSE [r EXCEPT
          !.fresh = FALSE,
          !.peers = IF w.op = "remove" THEN @ \ {w.normalized}
                    ELSE IF r.op = "add" /\ r.seen = w.seen
                      THEN @ \cup {w.normalized}
                    ELSE @]

\* the number of copies in bag B of the elements of xs
RECURSIVE SumOf(_, _)
SumOf(B, xs) ==
  IF xs = {} THEN 0
  ELSE LET x == CHOOSE y \in xs : TRUE IN B[x] + SumOf(B, xs \ {x})

\* the calls suspended at the permission request, their history fields
\* brought up to date
RequestingAfterWrite(w, setOk) ==
  [y \in {AfterWrite(w, setOk, x) : x \in DOMAIN requesting} |->
     SumOf(requesting, {x \in DOMAIN requesting : AfterWrite(w, setOk, x) = y})]

\* loadDomainConfig: the config object it returns, either the shared
\* DEFAULT_DOMAIN_CONFIG of the context ("default") or a fresh object ("own")
\* stored is what chrome.storage.sync.get finds, readOk whether it resolves
loadDomainConfig(stored, readOk) ==
  IF ~readOk \/ ~stored.present
    THEN [ref |-> "default", own |-> <<>>, seen |-> Absent]
    ELSE [ref |-> "own", own |-> filterValid(stored.customDomains),
          seen |-> stored]

\* config.customDomains as seen through a config reference in context c
customDomainsOf(c, cfg) ==
  IF cfg.ref = "default" THEN defaultCfg[c] ELSE cfg.own

\* saveDomainConfig: chrome.storage.sync.set is called with the config as it
\* is now; the backend completes the calls one at a time
saveDomainConfig(call, customDomains) ==
  setQueue' = Append(setQueue, Pending(call, customDomains))

\* chrome.storage.sync.set completes for the call at the head of the queue:
\* it resolves (setOk) or rejects, and the call returns
SetCompletes(setOk, done) ==
  LET w == Head(setQueue)
  IN  /\ storage' = IF setOk
                      THEN [present |-> TRUE, customDomains |-> w.value]
                      ELSE storage
      /\ setQueue' = [i \in 1..(Len(setQueue) - 1) |->
                         AfterWrite(w, setOk, setQueue[i + 1])]
      /\ requesting' = RequestingAfterWrite(w, setOk)
      /\ Returns(w, IF setOk THEN done ELSE "threw", <<>>)

\* ----------------------------------------------------------- addCustomDomain
\* variant of AddCall that saves without asking for the permission
AddCallSkipsPermission(c, input, readOk) ==
  LET normalized == NormalizedOf[input]
      config == loadDomainConfig(storage, readOk)
      call == Frame("add", c, normalized, config, FALSE)
      pushed == push(customDomainsOf(c, config), normalized)
  IN  /\ Begins(c)
      /\ IF ~ValidOf[normalized]
           THEN /\ ReturnsAtOnce(call, "invalid_domain_format", <<>>)
                /\ UNCHANGED <<defaultCfg, setQueue>>
         ELSE IF BuiltinOf[normalized]
           THEN /\ ReturnsAtOnce(call, "domain_already_builtin", <<>>)
                /\ UNCHANGED <<defaultCfg, setQueue>>
         ELSE IF includes(customDomainsOf(c, config), normalized)
           THEN /\ ReturnsAtOnce(call, "domain_already_exists", <<>>)
                /\ UNCHANGED <<defaultCfg, setQueue>>
         ELSE /\ Suspends(c)
              /\ defaultCfg' = IF config.ref = "default"
                                 THEN [defaultCfg EXCEPT ![c] = pushed]
                                 ELSE defaultCfg
              /\ saveDomainConfig(call, pushed)
              /\ UNCHANGED requesting
      /\ UNCHANGED <<storage, grantedRequests>>
      /\ UNCHANGED <<ui, bg>>

\* variant of AddCall in which the permission is asked for, and granted,
\* before the built-in test
AddCallAsksBeforeBuiltinTest(c, input, readOk) ==
  LET normalized == NormalizedOf[input]
      config == loadDomainConfig(storage, readOk)
      call == Frame("add", c, normalized, config, FALSE)
  IN  /\ Begins(c)
      /\ IF ~ValidOf[normalized]
           THEN /\ ReturnsAtOnce(call, "invalid_domain_format", <<>>)
                /\ UNCHANGED grantedRequests
         ELSE IF BuiltinOf[normalized]
           THEN /\ ReturnsAtOnce(call, "domain_already_builtin", <<>>)
                /\ grantedRequests' =
                     grantedRequests \cup {PatternsOf[normalized]}
         ELSE IF includes(customDomainsOf(c, config), normalized)
           THEN /\ ReturnsAtOnce(call, "domain_already_exists", <<>>)
                /\ UNCHANGED grantedRequests
         ELSE /\ Suspends(c)
              /\ requesting' = requesting (+) SetToBag({call})
              /\ UNCHANGED grantedRequests
      /\ UNCHANGED <<storage, defaultCfg, setQueue>>
      /\ UNCHANGED <<ui, bg>>

\* The call up to its second await: validation, the built-in test, the load
\* (readOk: whether chrome.storage.sync.get resolves), the duplicate test and
\* the permission request.  Nothing before the resolution of the get reads or
\* writes shared state, so the call is taken to start when the get resolves.
AddCall(c, input, readOk) ==
  LET normalized == NormalizedOf[input]
      config == loadDomainConfig(storage, readOk)
      call == Frame("add", c, normalized, config, FALSE)
  IN  /\ Begins(c)
      /\ IF ~ValidOf[normalized]
           THEN ReturnsAtOnce(call, "invalid_domain_format", <<>>)
         ELSE IF BuiltinOf[normalized]
           THEN ReturnsAtOnce(call, "domain_already_builtin", <<>>)
         ELSE IF includes(customDomainsOf(c, config), normalized)
           THEN ReturnsAtOnce(call, "domain_already_exists", <<>>)
         ELSE /\ Suspends(c)
              /\ requesting' = requesting (+) SetToBag({call})
      /\ UNCHANGED <<storage, defaultCfg, grantedRequests, setQueue>>
      /\ UNCHANGED <<ui, bg>>

\* variant of AddPermission that never looks at the answer
AddPermissionAnswerIgnored(c, normalized, granted) ==
  /\ last = NoReturn
  /\ UNCHANGED <<storage, started, ctxUsed>>
  /\ UNCHANGED <<ui, bg>>
  /\ \E call \in BagToSet(requesting) :
       /\ call.ctx = c
       /\ call.normalized = normalized
       /\ LET pushed == push(customDomainsOf(c, call), normalized)
          IN  /\ requesting' = requesting (-) SetToBag({call})
              /\ grantedRequests' =
                   IF granted THEN grantedRequests \cup {PatternsOf[normalized]}
                              ELSE grantedRequests
              /\ defaultCfg' = IF call.ref = "default"
                                 THEN [defaultCfg EXCEPT ![c] = pushed]
                                 ELSE defaultCfg
              /\ saveDomainConfig(call, pushed)
              /\ last' = NoReturn

\* variant of AddPermission that pushes the domain before it tests the answer
AddPermissionPushFirst(c, normalized, granted) ==
  /\ last = NoReturn
  /\ UNCHANGED <<storage, started, ctxUsed>>
  /\ UNCHANGED <<ui, bg>>
  /\ \E call \in BagToSet(requesting) :
       /\ call.ctx = c
       /\ call.normalized = normalized
       /\ LET pushed == push(customDomainsOf(c, call), normalized)
          IN  /\ requesting' = requesting (-) SetToBag({call})
              /\ defaultCfg' = IF call.ref = "default"
                                 THEN [defaultCfg EXCEPT ![c] = pushed]
                                 ELSE defaultCfg
              /\ IF ~granted
                   THEN /\ Returns(call, "permission_denied", <<>>)
                        /\ UNCHANGED <<grantedRequests, setQueue>>
                   ELSE /\ grantedRequests' =
                             grantedRequests \cup {PatternsOf[normalized]}
                        /\ saveDomainConfig(call, pushed)
                        /\ last' = NoReturn

\* chrome.permissions.request resolves for a call of context c that asked
\* for the domain; on a grant the domain is pushed and the save is issued
AddPermission(c, normalized, granted) ==
  /\ last = NoReturn
  /\ UNCHANGED <<storage, started, ctxUsed>>
  /\ UNCHANGED <<ui, bg>>
  /\ \E call \in BagToSet(requesting) :
       /\ call.ctx = c
       /\ call.normalized = normalized
       /\ LET pushed == push(customDomainsOf(c, call), normalized)
          IN  /\ requesting' = requesting (-) SetToBag({call})
              /\ IF ~granted
                   THEN /\ Returns(call, "permission_denied", <<>>)
                        /\ UNCHANGED <<defaultCfg, grantedRequests, setQueue>>
                   ELSE /\ grantedRequests' =
                             grantedRequests \cup {PatternsOf[normalized]}
                        /\ defaultCfg' = IF call.ref = "default"
                                           THEN [defaultCfg EXCEPT ![c] = pushed]
                                           ELSE defaultCfg
                        /\ saveDomainConfig(call, pushed)
                        /\ last' = NoReturn

\* the set of an add resolves (setOk) or rejects
AddSaved(setOk) ==
  /\ last = NoReturn
  /\ setQueue # <<>>
  /\ Head(setQueue).op = "add"
  /\ SetCompletes(setOk, "domain_added")
  /\ UNCHANGED <<defaultCfg, grantedRequests, started, ctxUsed>>
  /\ UNCHANGED <<ui, bg>>

\* -------------------------------------------------------- removeCustomDomain
\* the call that returned in the last step was a successful add of d
JustAdded(d) ==
  last.op = "add" /\ last.result = "domain_added" /\ last.normalized = d

\* a remove may also be the caller's next call after a successful add of the
\* same domain has returned to it
BeginsAfter(c, normalized) ==
  /\ last = NoReturn \/ (JustAdded(normalized) /\ last.ctx = c)
  /\ InFlight < MaxInFlight
  /\ c <= ctxUsed + 1

\* variant of RemoveCall without the index === -1 test
RemoveCallNoIndexTest(c, input, readOk) ==
  LET normalized == NormalizedOf[input]
      config == loadDomainConfig(storage, readOk)
      index == indexOf(customDomainsOf(c, config), normalized)
      spliced == splice(customDomainsOf(c, config), index)
      call == Frame("remove", c, normalized, config,
                    JustAdded(normalized) /\ readOk)
  IN  /\ BeginsAfter(c, normalized)
      /\ defaultCfg' = IF config.ref = "default"
                         THEN [defaultCfg EXCEPT ![c] = spliced]
                         ELSE defaultCfg
      /\ Suspends(c)
      /\ saveDomainConfig(call, spliced)
      /\ UNCHANGED <<storage, grantedRequests, requesting>>
      /\ UNCHANGED <<ui, bg>>

\* The call up to its second await: the load, the lookup, the splice and the
\* save.  As for addCustomDomain the call is taken to start when its get
\* resolves.
RemoveCall(c, input, readOk) ==
  LET normalized == NormalizedOf[input]
      config == loadDomainConfig(storage, readOk)
      index == indexOf(customDomainsOf(c, config), normalized)
      spliced == splice(customDomainsOf(c, config), index)
      call == Frame("remove", c, normalized, config,
                    JustAdded(normalized) /\ readOk)
  IN  /\ BeginsAfter(c, normalized)
      /\ IF index = -1
           THEN /\ ReturnsAtOnce(call, "domain_not_found", <<>>)
                /\ UNCHANGED <<defaultCfg, setQueue>>
           ELSE /\ defaultCfg' = IF config.ref = "default"
                                   THEN [defaultCfg EXCEPT ![c] = spliced]
                                   ELSE defaultCfg
                /\ Suspends(c)
                /\ saveDomainConfig(call, spliced)
                /\ UNCHANGED requesting
      /\ UNCHANGED <<storage, grantedRequests>>
      /\ UNCHANGED <<ui, bg>>

\* variant of RemoveSaved that gives the origins of the removed domain back
RemoveSavedRevokes(setOk) ==
  /\ last = NoReturn
  /\ setQueue # <<>>
  /\ Head(setQueue).op = "remove"
  /\ SetCompletes(setOk, "domain_removed")
  /\ grantedRequests' =
       IF setOk THEN grantedRequests \ {PatternsOf[Head(setQueue).normalized]}
                ELSE grantedRequests
  /\ UNCHANGED <<defaultCfg, started, ctxUsed>>
  /\ UNCHANGED <<ui, bg>>

\* the set of a remove resolves (setOk) or rejects
RemoveSaved(setOk) ==
  /\ last = NoReturn
  /\ setQueue # <<>>
  /\ Head(setQueue).op = "remove"
  /\ SetCompletes(setOk, "domain_removed")
  /\ UNCHANGED <<defaultCfg, grantedRequests, started, ctxUsed>>
  /\ UNCHANGED <<ui, bg>>

\* ---------------------------------------------------------- loadDomainConfig
\* A direct call of loadDomainConfig in context c.  Its only await is the get
\* and it writes nothing, so the call is one step; result records which branch
\* produced the returned config.
LoadCall(c, readOk) ==
  LET config == loadDomainConfig(storage, readOk)
  IN  /\ last = NoReturn
      /\ c <= ctxUsed + 1
      /\ started < MaxOps
      /\ started' = started + 1
      /\ last' = [NoReturn EXCEPT
                    !.op = "load", !.ctx = c,
                    !.result = IF ~readOk THEN "read_failed"
                               ELSE IF ~storage.present THEN "absent"
                               ELSE "present",
                    !.ret = customDomainsOf(c, config)]
      /\ UNCHANGED <<storage, defaultCfg, grantedRequests, requesting,
                     setQueue, ctxUsed>>
      /\ UNCHANGED <<ui, bg>>

\* the caller takes the result of the call that has returned
Deliver ==
  /\ last # NoReturn
  /\ last' = NoReturn
  /\ UNCHANGED <<storage, defaultCfg, grantedRequests, requesting, setQueue,
                 started, ctxUsed>>
  /\ UNCHANGED <<ui, bg>>

Next ==
  \/ \E c \in Ctx, input \in Inputs, readOk \in BOOLEAN :
       AddCall(c, input, readOk)
  \/ \E c \in Ctx, normalized \in Domains, granted \in BOOLEAN :
       AddPermission(c, normalized, granted)
  \/ \E setOk \in BOOLEAN : AddSaved(setOk)
  \/ \E c \in Ctx, input \in Inputs, readOk \in BOOLEAN :
       RemoveCall(c, input, readOk)
  \/ \E setOk \in BOOLEAN : RemoveSaved(setOk)
  \/ \E c \in Ctx, readOk \in BOOLEAN : LoadCall(c, readOk)
  \/ Deliver

Spec == Init /\ [][Next]_vars

\* a continuation of a suspended call, or the taking of a result
Progress ==
  \/ \E c \in Ctx, normalized \in Domains, granted \in BOOLEAN :
       AddPermission(c, normalized, granted)
  \/ \E setOk \in BOOLEAN : AddSaved(setOk)
  \/ \E setOk \in BOOLEAN : RemoveSaved(setOk)
  \/ Deliver

\* The storage backend completes its sets, the permission backend answers its
\* requests and the callers take their results: while one of these can
\* happen, one does.
SpecFair ==
  /\ Init
  /\ [][Next]_vars
  /\ WF_vars(Progress)

\* ------------------------------------------- loads of an arbitrary storage
\* getSharedDocumentUrlPatterns of the background process: a load and
\* getAllUrlPatterns of what it returns
PatternsCall(c, readOk) ==
  LET config == loadDomainConfig(storage, readOk)
  IN  /\ last = NoReturn
      /\ c <= ctxUsed + 1
      /\ started < MaxOps
      /\ started' = started + 1
      /\ last' = [NoReturn EXCEPT
                    !.op = "patterns", !.ctx = c,
                    !.result = IF ~readOk THEN "read_failed"
                               ELSE IF ~storage.present THEN "absent"
                               ELSE "present",
                    !.ret = getAllUrlPatterns(customDomainsOf(c, config))]
      /\ UNCHANGED <<storage, defaultCfg, grantedRequests, requesting,
                     setQueue, ctxUsed>>
      /\ UNCHANGED <<ui, bg>>

\* the lists over StoredEntries of length at most n
RECURSIVE ListsUpTo(_)
ListsUpTo(n) ==
  IF n = 0 THEN {<<>>}
  ELSE LET shorter == ListsUpTo(n - 1)
       IN  shorter \cup {Append(l, e) : l \in shorter, e \in StoredEntries}

\* The key is absent, or holds a list that this or another version of the
\* extension, or another device through sync, has stored.
InitStored ==
  /\ storage \in {Absent} \cup
                  {[present |-> TRUE, customDomains |-> l] : l \in ListsUpTo(MaxStored)}
  /\ defaultCfg = [c \in Ctx |-> <<>>]
  /\ grantedRequests = {}
  /\ requesting = EmptyBag
  /\ setQueue = <<>>
  /\ started = 0
  /\ ctxUsed = 0
  /\ last = NoReturn
  /\ listeners = [c \in Ctx |-> <<>>]
  /\ unsubscribed = {}
  /\ delivered = [id \in SubId |-> NotYet]
  /\ page = [c \in Ctx |-> Closed]
  /\ menus = [id \in MenuItemId |-> NoItem]
  /\ setups = <<>>

NextLoad ==
  \/ \E c \in Ctx, readOk \in BOOLEAN : LoadCall(c, readOk)
  \/ \E c \in Ctx, readOk \in BOOLEAN : PatternsCall(c, readOk)
  \/ Deliver

SpecLoad == InitStored /\ [][NextLoad]_vars

\* as InitStored, with the stored list one entry shorter
InitStoredShort ==
  /\ storage \in {Absent} \cup
                  {[present |-> TRUE, customDomains |-> l] :
                     l \in ListsUpTo(MaxStored - 1)}
  /\ defaultCfg = [c \in Ctx |-> <<>>]
  /\ grantedRequests = {}
  /\ requesting = EmptyBag
  /\ setQueue = <<>>
  /\ started = 0
  /\ ctxUsed = 0
  /\ last = NoReturn
  /\ listeners = [c \in Ctx |-> <<>>]
  /\ unsubscribed = {}
  /\ delivered = [id \in SubId |-> NotYet]
  /\ page = [c \in Ctx |-> Closed]
  /\ menus = [id \in MenuItemId |-> NoItem]
  /\ setups = <<>>

\* the calls of the module on a storage that holds an arbitrary list
SpecStored == InitStoredShort /\ [][Next]_vars

\* ------------------------------------------------------ onDomainConfigChange
\* the subscriptions made so far
Issued == unsubscribed \cup UNION {{listeners[c][k] : k \in 1..Len(listeners[c])} : c \in Ctx}

\* onDomainConfigChange(callback) in context c: a new listener function is
\* registered with chrome.storage.onChanged; the handle returned is the
\* number of the subscription
Subscribe(c) ==
  LET id == Cardinality(Issued) + 1
  IN  /\ last = NoReturn
      /\ id <= MaxSubs
      /\ started < MaxOps
      /\ started' = started + 1
      /\ listeners' = [listeners EXCEPT ![c] = Append(@, id)]
      /\ UNCHANGED <<storage, defaultCfg, grantedRequests, requesting,
                     setQueue, ctxUsed, last, unsubscribed, delivered, page,
                     bg>>

\* arr without the entries equal to x
RECURSIVE without(_, _)
without(arr, x) ==
  IF arr = <<>> THEN <<>>
  ELSE IF Head(arr) = x THEN without(Tail(arr), x)
  ELSE <<Head(arr)>> \o without(Tail(arr), x)

\* variant of Unsubscribe that removes every listener of the context
UnsubscribeClearsContext(id) ==
  /\ last = NoReturn
  /\ id \in Issued
  /\ listeners' = [c \in Ctx |-> IF includes(listeners[c], id) THEN <<>>
                                  ELSE listeners[c]]
  /\ unsubscribed' = unsubscribed \cup {id}
  /\ last' = [NoReturn EXCEPT
                !.op = "unsubscribe",
                !.result = IF id \in unsubscribed THEN "not_registered"
                           ELSE "removed",
                !.ret = <<id>>]
  /\ UNCHANGED <<storage, defaultCfg, grantedRequests, requesting, setQueue,
                 started, ctxUsed, delivered, page, bg>>

\* the handle of subscription id is called: removeListener takes the listener
\* out if it is registered and does nothing otherwise
Unsubscribe(id) ==
  /\ last = NoReturn
  /\ id \in Issued
  /\ listeners' = [c \in Ctx |-> without(listeners[c], id)]
  /\ unsubscribed' = unsubscribed \cup {id}
  /\ last' = [NoReturn EXCEPT
                !.op = "unsubscribe",
                !.result = IF id \in unsubscribed THEN "not_registered"
                           ELSE "removed",
                !.ret = <<id>>]
  /\ UNCHANGED <<storage, defaultCfg, grantedRequests, requesting, setQueue,
                 started, ctxUsed, delivered, page, bg>>

\* the new values a change event of the key carries: none (the key was
\* deleted) or a config
EventValues ==
  {Absent} \cup {[present |-> TRUE, customDomains |-> l] : l \in {<<>>, <<InA>>}}

EventKind(areaName, inChanges, newValue) ==
  IF areaName = "sync"
    THEN IF ~inChanges THEN "sync_other"
         ELSE IF newValue.present THEN "sync_set" ELSE "sync_deleted"
    ELSE IF ~inChanges THEN "local_other"
         ELSE IF newValue.present THEN "local_set" ELSE "local_deleted"

\* the invocations that the listeners ids make of their callbacks with config
Invocations(ids, config) ==
  [k \in 1..Len(ids) |->
     [id |-> ids[k], customDomains |-> config,
      again |-> delivered[ids[k]] = [called |-> TRUE, customDomains |-> config]]]

\* variant of StorageChanged whose listeners do not look at areaName
StorageChangedAnyArea(c, areaName, inChanges, newValue) ==
  LET newConfig == IF newValue.present THEN newValue.customDomains
                   ELSE defaultCfg[c]
      invoked == IF inChanges THEN listeners[c] ELSE <<>>
  IN  /\ last = NoReturn
      /\ started < MaxOps
      /\ started' = started + 1
      /\ delivered' = [id \in SubId |->
                         IF includes(invoked, id)
                           THEN [called |-> TRUE, customDomains |-> newConfig]
                         ELSE delivered[id]]
      /\ last' = [NoReturn EXCEPT
                    !.op = "event", !.ctx = c,
                    !.result = EventKind(areaName, inChanges, newValue),
                    !.ret = Invocations(invoked, newConfig)]
      /\ UNCHANGED <<storage, defaultCfg, grantedRequests, requesting,
                     setQueue, ctxUsed, listeners, unsubscribed, page, bg>>

\* chrome.storage.onChanged fires in context c for a change in areaName;
\* inChanges: whether the changes hold STORAGE_KEY, newValue: its new value.
\* The listeners run in registration order; each one that finds the area
\* "sync" and the key in the changes invokes its callback with the new value,
\* or with DEFAULT_DOMAIN_CONFIG when there is none.  ret lists the
\* invocations made; again records that the callback had last been invoked
\* with an equal customDomains.
StorageChanged(c, areaName, inChanges, newValue) ==
  LET newConfig == IF newValue.present THEN newValue.customDomains
                   ELSE defaultCfg[c]
      invoked == IF areaName = "sync" /\ inChanges THEN listeners[c] ELSE <<>>
  IN  /\ last = NoReturn
      /\ started < MaxOps
      /\ started' = started + 1
      /\ delivered' = [id \in SubId |->
                         IF includes(invoked, id)
                           THEN [called |-> TRUE, customDomains |-> newConfig]
                         ELSE delivered[id]]
      /\ last' = [NoReturn EXCEPT
                    !.op = "event", !.ctx = c,
                    !.result = EventKind(areaName, inChanges, newValue),
                    !.ret = Invocations(invoked, newConfig)]
      /\ UNCHANGED <<storage, defaultCfg, grantedRequests, requesting,
                     setQueue, ctxUsed, listeners, unsubscribed, page, bg>>

NextSub ==
  \/ \E c \in Ctx, input \in Inputs, readOk \in BOOLEAN :
       AddCall(c, input, readOk)
  \/ \E c \in Ctx, normalized \in Domains, granted \in BOOLEAN :
       AddPermission(c, normalized, granted)
  \/ \E setOk \in BOOLEAN : AddSaved(setOk)
  \/ \E c \in Ctx, input \in Inputs, readOk \in BOOLEAN :
       RemoveCall(c, input, readOk)
  \/ \E setOk \in BOOLEAN : RemoveSaved(setOk)
  \/ \E c \in Ctx : Subscribe(c)
  \/ \E id \in SubId : Unsubscribe(id)
  \/ \E c \in Ctx, areaName \in {"sync", "local"}, inChanges \in BOOLEAN,
        newValue \in EventValues :
       StorageChanged(c, areaName, inChanges, newValue)
  \/ Deliver

SpecSub == Init /\ [][NextSub]_vars

\* ------------------------------------------------- options page, domains.vue
\* customDomains.value of the page of context c: the array of the config that
\* loadDomains stored in the ref
Displayed(c) == customDomainsOf(c, page[c])

\* loading.value: a handler of the page has not finished
Loading(c) ==
  \/ \E call \in BagToSet(requesting) : call.ctx = c
  \/ \E i \in 1..Len(setQueue) : setQueue[i].ctx = c
  \/ last.op \in {"add", "remove"} /\ last.ctx = c

\* loadDomains: customDomains.value = (await loadDomainConfig()).customDomains
loadDomains(readOk) ==
  LET config == loadDomainConfig(storage, readOk)
  IN  [mounted |-> TRUE, ref |-> config.ref, own |-> config.own]

\* onMounted: the page of context c opens and loads
PageMounted(c, readOk) ==
  /\ last = NoReturn
  /\ ~page[c].mounted
  /\ page' = [page EXCEPT ![c] = loadDomains(readOk)]
  /\ UNCHANGED <<storage, defaultCfg, grantedRequests, requesting, setQueue,
                 started, ctxUsed, last, listeners, unsubscribed, delivered,
                 bg>>

\* handleAddDomain up to the permission request of its addCustomDomain; the
\* input and the button are disabled while loading
handleAddDomain(c, input, readOk) ==
  /\ page[c].mounted
  /\ ~Loading(c)
  /\ trim(input) # <<>>
  /\ ValidOf[input]
  /\ AddCall(c, input, readOk)

\* handleRemoveDomain(domain) for a domain of the displayed list, up to the
\* set of its removeCustomDomain
handleRemoveDomain(c, input, readOk) ==
  /\ page[c].mounted
  /\ ~Loading(c)
  /\ includes(Displayed(c), input)
  /\ RemoveCall(c, input, readOk)

\* the handler of the page takes the result of its call: after a success it
\* awaits loadDomains, otherwise it shows the error; then loading is reset
HandlerResumes(readOk) ==
  /\ last.op \in {"add", "remove"}
  /\ last' = NoReturn
  /\ page' = IF last.result \in {"domain_added", "domain_removed"}
               THEN [page EXCEPT ![last.ctx] = loadDomains(readOk)]
               ELSE page
  /\ UNCHANGED <<storage, defaultCfg, grantedRequests, requesting, setQueue,
                 started, ctxUsed, listeners, unsubscribed, delivered, bg>>

NextPage ==
  \/ \E c \in Ctx, readOk \in BOOLEAN : PageMounted(c, readOk)
  \/ \E c \in Ctx, input \in Inputs, readOk \in BOOLEAN :
       handleAddDomain(c, input, readOk)
  \/ \E c \in Ctx, normalized \in Domains, granted \in BOOLEAN :
       AddPermission(c, normalized, granted)
  \/ \E setOk \in BOOLEAN : AddSaved(setOk)
  \/ \E c \in Ctx, input \in Inputs, readOk \in BOOLEAN :
       handleRemoveDomain(c, input, readOk)
  \/ \E setOk \in BOOLEAN : RemoveSaved(setOk)
  \/ \E readOk \in BOOLEAN : HandlerResumes(readOk)

\* The backends answer every request and the event loop runs every handler
\* whose await has settled.
SpecPage ==
  /\ Init
  /\ [][NextPage]_vars
  /\ WF_vars(\E c \in Ctx, normalized \in Domains, granted \in BOOLEAN :
               AddPermission(c, normalized, granted))
  /\ WF_vars(\E setOk \in BOOLEAN : AddSaved(setOk))
  /\ WF_vars(\E setOk \in BOOLEAN : RemoveSaved(setOk))
  /\ WF_vars(\E readOk \in BOOLEAN : HandlerResumes(readOk))

\* ------------------------------------------- background: content script
\* the characters of s from position from to position to, as far as s has them
slice(s, from, to) ==
  LET upto == IF to > Len(s) THEN Len(s) ELSE to
  IN  IF from > upto THEN <<>>
      ELSE [i \in 1..(upto - from + 1) |-> s[from + i - 1]]

\* String.prototype.endsWith
endsWith(s, suffix) ==
  /\ Len(suffix) <= Len(s)
  /\ slice(s, Len(s) - Len(suffix) + 1, Len(s)) = suffix

\* the position of the first character of s from position i on that is in
\* the set stops, Len(s) + 1 when there is none
RECURSIVE firstOf(_, _, _)
firstOf(s, stops, i) ==
  IF i > Len(s) THEN Len(s) + 1
  ELSE IF s[i] \in stops THEN i
  ELSE firstOf(s, stops, i + 1)

\* the position of the first character of s from position i on that is not
\* a slash
RECURSIVE afterSlashes(_, _)
afterSlashes(s, i) ==
  IF i <= Len(s) /\ s[i] \in {"/", "\\"} THEN afterSlashes(s, i + 1) ELSE i

\* new URL(url), as far as the listener uses it: scheme is the part before
\* the first colon; a special scheme (http, https) takes its host after any
\* number of slashes and fails without one, another scheme has a host only
\* after "//"; the host ends at the first of / ? # : and that of a special
\* scheme is lowercased.  ok: the constructor does not throw.
URL(url) ==
  LET colon   == firstOf(url, {":"}, 1)
      scheme  == toLowerCase(slice(url, 1, colon - 1))
      special == scheme \in {<<"h","t","t","p">>, <<"h","t","t","p","s">>}
      start   == IF special THEN afterSlashes(url, colon + 1)
                 ELSE colon + 3
      hasHost == special \/ slice(url, colon + 1, colon + 2) = <<"/", "/">>
      stop    == firstOf(url, {"/", "?", "#", ":"}, start)
      host    == IF hasHost THEN slice(url, start, stop - 1) ELSE <<>>
  IN  [ok |-> /\ colon >= 2
              /\ colon <= Len(url)
              /\ url[1] \in Alpha
              /\ \A i \in 1..(colon - 1) : url[i] \in AlNum \cup {"+", "-", "."}
              /\ special => host # <<>>,
       hostname |-> IF special THEN toLowerCase(host) ELSE host]

\* variant of matchesCustomDomain whose suffix test leaves out the dot
matchesCustomDomainNoDot(url, customDomains) ==
  IF Len(customDomains) = 0 THEN FALSE
  ELSE IF ~URL(url).ok THEN FALSE
  ELSE \E i \in 1..Len(customDomains) :
         \/ URL(url).hostname = customDomains[i]
         \/ endsWith(URL(url).hostname, customDomains[i])

\* matchesCustomDomain after its load: customDomains is what the load returned
matchesCustomDomain(url, customDomains) ==
  IF Len(customDomains) = 0 THEN FALSE
  ELSE IF ~URL(url).ok THEN FALSE
  ELSE \E i \in 1..Len(customDomains) :
         \/ URL(url).hostname = customDomains[i]
         \/ endsWith(URL(url).hostname, <<".">> \o customDomains[i])

UrlA       == <<"h","t","t","p","s",":","/","/","a",".","i","o","/","d">>
UrlSub     == <<"h","t","t","p","s",":","/","/","s",".","a",".","i","o","/">>
UrlNear    == <<"h","t","t","p","s",":","/","/","x","a",".","i","o","/">>
UrlUpper   == <<"H","T","T","P",":","/","/","S",".","B",".","I","O",":","8","0","/","x">>
UrlBuiltin == <<"h","t","t","p","s",":","/","/","d",".","f","e","i","s","h","u",".","c","n","/">>
UrlNoHost  == <<"a","b","o","u","t",":","b","l","a","n","k">>
UrlBad     == <<"a",".","i","o","/","d">>

\* the tab.url values of the updates: matching a custom domain exactly, as a
\* subdomain, by its last characters only, in another case and with a port,
\* a page of a built-in domain, a URL without host, a string that is no URL,
\* and none
TabUrls ==
  {UrlA, UrlSub, UrlNear, UrlUpper, UrlBuiltin, UrlNoHost, UrlBad, <<>>}

\* what the listener of an update did
TabOutcome(status, url, customDomains, result) ==
  [op |-> "tab", ctx |-> 1, normalized |-> <<>>, result |-> result,
   ret |-> customDomains, peers |-> {}, fresh |-> FALSE,
   status |-> status, url |-> url]

\* chrome.tabs.onUpdated fires in the background process (context 1).  The
\* listener returns at once unless the status is complete and the tab has a
\* URL; otherwise matchesCustomDomain loads the config (readOk: whether the
\* get resolves) and on a match injectContentScript runs.  As for the calls
\* of the module the handler is taken to run when its get resolves.
TabUpdated(status, url, readOk) ==
  LET config == loadDomainConfig(storage, readOk)
      customDomains == customDomainsOf(1, config)
  IN  /\ last = NoReturn
      /\ started < MaxOps
      /\ started' = started + 1
      /\ last' = IF status # "complete" \/ url = <<>>
                   THEN TabOutcome(status, url, <<>>, "ignored")
                 ELSE IF matchesCustomDomain(url, customDomains)
                   THEN TabOutcome(status, url, customDomains, "injected")
                 ELSE TabOutcome(status, url, customDomains, "not_custom")
      /\ UNCHANGED <<storage, defaultCfg, grantedRequests, requesting,
                     setQueue, ctxUsed>>
      /\ UNCHANGED <<ui, bg>>

NextTabs ==
  \/ \E status \in {"loading", "complete"}, url \in TabUrls, readOk \in BOOLEAN :
       TabUpdated(status, url, readOk)
  \/ Deliver

SpecTabs == InitStored /\ [][NextTabs]_vars

\* ---------------------------------------------- background: context menus
\* An invocation of setupContextMenus is suspended at the get of its load
\* ("get"), at removeAll before the browser has carried it out ("removeAll")
\* or after ("removed").  The browser answers the calls of one kind in the
\* order they were made.
Invocation(stage, urlPatterns, readOk) ==
  [stage |-> stage, urlPatterns |-> urlPatterns, readOk |-> readOk]

\* setupContextMenus is called: it awaits getSharedDocumentUrlPatterns
SetupStarts == setups' = Append(setups, Invocation("get", <<>>, TRUE))

\* the position in setups of the first invocation at stage, 0 when none is
FirstAt(stage) ==
  IF \E i \in 1..Len(setups) : setups[i].stage = stage
    THEN CHOOSE i \in 1..Len(setups) :
           /\ setups[i].stage = stage
           /\ \A j \in 1..(i - 1) : setups[j].stage # stage
    ELSE 0

\* chrome.runtime.onInstalled fires
Installed ==
  /\ last = NoReturn
  /\ started < MaxOps
  /\ Len(setups) < MaxInFlight
  /\ started' = started + 1
  /\ SetupStarts
  /\ UNCHANGED <<storage, defaultCfg, grantedRequests, requesting, setQueue,
                 ctxUsed, last, ui, menus>>

\* the lists that the options pages persist
ConfigLists == {<<>>, <<InA>>, <<InB>>, <<InA, InB>>}

\* A set of an options page has changed the persisted config to customDomains.
\* chrome.storage.onChanged fires in the background process, where the
\* listener of onDomainConfigChange calls setupContextMenus.
ConfigWritten(customDomains) ==
  /\ last = NoReturn
  /\ started < MaxOps
  /\ Len(setups) < MaxInFlight
  /\ storage # [present |-> TRUE, customDomains |-> customDomains]
  /\ started' = started + 1
  /\ storage' = [present |-> TRUE, customDomains |-> customDomains]
  /\ SetupStarts
  /\ UNCHANGED <<defaultCfg, grantedRequests, requesting, setQueue, ctxUsed,
                 last, ui, menus>>

\* the get of the first invocation waiting for one resolves (readOk) or
\* rejects: urlPatterns is computed and removeAll is called
SetupLoaded(readOk) ==
  LET i == FirstAt("get")
      config == loadDomainConfig(storage, readOk)
      urlPatterns == getAllUrlPatterns(customDomainsOf(1, config))
  IN  /\ last = NoReturn
      /\ i # 0
      /\ setups' = [setups EXCEPT
                      ![i] = Invocation("removeAll", urlPatterns, readOk)]
      /\ UNCHANGED <<storage, defaultCfg, grantedRequests, requesting,
                     setQueue, started, ctxUsed, last, ui, menus>>

\* the browser carries out the first removeAll not yet carried out
RemoveAllExecutes ==
  LET i == FirstAt("removeAll")
  IN  /\ last = NoReturn
      /\ i # 0
      /\ menus' = [id \in MenuItemId |-> NoItem]
      /\ setups' = [setups EXCEPT ![i].stage = "removed"]
      /\ UNCHANGED <<storage, defaultCfg, grantedRequests, requesting,
                     setQueue, started, ctxUsed, last, ui>>

\* chrome.contextMenus.create: an id that exists is refused and the item
\* that has it stays as it is
create(item, urlPatterns, readOk) ==
  IF item.exists THEN item
  ELSE [exists |-> TRUE, documentUrlPatterns |-> urlPatterns, readOk |-> readOk]

\* the promise of the first removeAll carried out settles: the invocation
\* creates the three items and ends; result tells whether an id was refused
SetupCreates ==
  LET i == FirstAt("removed")
      setup == setups[i]
  IN  /\ last = NoReturn
      /\ i # 0
      /\ menus' = [id \in MenuItemId |->
                     create(menus[id], setup.urlPatterns, setup.readOk)]
      /\ setups' = [j \in 1..(Len(setups) - 1) |->
                      IF j < i THEN setups[j] ELSE setups[j + 1]]
      /\ last' = [NoReturn EXCEPT
                    !.op = "setup",
                    !.result = IF \E id \in MenuItemId : menus[id].exists
                                 THEN "duplicate_id" ELSE "created",
                    !.ret = setup.urlPatterns]
      /\ UNCHANGED <<storage, defaultCfg, grantedRequests, requesting,
                     setQueue, started, ctxUsed, ui>>

NextMenus ==
  \/ Installed
  \/ \E customDomains \in ConfigLists : ConfigWritten(customDomains)
  \/ \E readOk \in BOOLEAN : SetupLoaded(readOk)
  \/ RemoveAllExecutes
  \/ SetupCreates
  \/ Deliver

SpecMenus == Init /\ [][NextMenus]_vars

TypeOK ==
  /\ storage.present \in BOOLEAN
  /\ started \in 0..MaxOps
  /\ ctxUsed \in 0..NumCtx
  /\ InFlight <= MaxInFlight
  /\ \A call \in BagToSet(requesting) : call.op = "add"

\* ------------------------------------------------------------- properties
\* what a loadDomainConfig whose storage read succeeds would return in context c
LoadViewIn(stored, dflt, c) ==
  LET config == loadDomainConfig(stored, TRUE)
  IN  IF config.ref = "default" THEN dflt[c] ELSE config.own

LoadView(c) == LoadViewIn(storage, defaultCfg, c)

\* C1: every persisted custom domain d has had a permission request for
\* exactly domainToUrlPatterns(d) answered with granted = true
C1_GrantedBeforePersisted ==
  \A i \in 1..Len(storage.customDomains) :
    domainToUrlPatterns(storage.customDomains[i]) \in grantedRequests

C1_Witness ==
  /\ storage.present
  /\ includes(storage.customDomains, InA)
  /\ includes(storage.customDomains, InB)

\* C2: when an add returns success, the persisted list holds its own domain
\* and the domain of every concurrent add that had loaded the same config and
\* returned success before it
C2_ConcurrentAddsBothKept ==
  (last.op = "add" /\ last.result = "domain_added")
    => \A d \in last.peers \cup {last.normalized} :
         includes(storage.customDomains, d)

\* C3: the persisted customDomains never holds the same domain twice
C3_NoDuplicates ==
  \A i, j \in 1..Len(storage.customDomains) :
    i < j => storage.customDomains[i] # storage.customDomains[j]

\* C4: addCustomDomain and removeCustomDomain never settle by rejecting their
\* promise; a failed storage write yields a structured failure result
C4_NoExceptionEscapes ==
  last.op \in {"add", "remove"} => last.result # "threw"

\* C5: a loadDomainConfig that finds the key absent, or whose read fails,
\* returns an empty customDomains
C5_AbsentLoadsEmpty ==
  (last.op = "load" /\ last.result \in {"absent", "read_failed"})
    => last.ret = <<>>

\* C6: every persisted custom domain equals its trimmed lower-cased form,
\* passes validateDomain and is not one of DEFAULT_DOMAINS
C6_PersistedWellFormed ==
  \A i \in 1..Len(storage.customDomains) :
    LET d == storage.customDomains[i]
    IN  /\ d = toLowerCase(trim(d))
        /\ validateDomain(d)
        /\ ~includes(DEFAULT_DOMAINS, d)

C6_Witness ==
  /\ storage.present
  /\ Len(storage.customDomains) >= 2
  /\ last.op = "add" /\ last.result = "domain_added"

\* C7: the step in which an add's permission request is answered no (the
\* only step in which a call leaves the permission request without issuing a
\* save) returns permission_denied and writes nothing: storage and the
\* pending writes are unchanged, and what a load returns in any context,
\* with or without a read failure, is what it returned before
C7_DeniedLeavesNoTrace ==
  [][(/\ BagCardinality(requesting') < BagCardinality(requesting)
      /\ Len(setQueue') = Len(setQueue))
         => /\ last'.op = "add"
            /\ last'.result = "permission_denied"
            /\ storage' = storage
            /\ setQueue' = setQueue
            /\ defaultCfg' = defaultCfg
            /\ \A c \in Ctx : LoadViewIn(storage', defaultCfg', c) = LoadView(c)
            /\ grantedRequests' = grantedRequests]_vars

C7_Witness ==
  /\ last.op = "add"
  /\ last.result = "permission_denied"
  /\ ~includes(LoadView(last.ctx), last.normalized)
  /\ storage.present

\* C8: right after an add has returned success, a load in that context
\* returns a list with exactly one occurrence of the normalized domain
C8_AddedExactlyOnce ==
  (last.op = "add" /\ last.result = "domain_added")
    => Count(LoadView(last.ctx), last.normalized) = 1

\* C9: a remove of d that follows a successful add of d, with no write by any
\* other call in between and a working storage backend, returns success and
\* leaves a list without d
C9_RemoveUndoesAdd ==
  (last.op = "remove" /\ last.fresh /\ last.result # "threw")
    => /\ last.result = "domain_removed"
       /\ ~includes(LoadView(last.ctx), last.normalized)

\* C10: a remove returns domain_not_found only when the list it loaded does
\* not hold the normalized domain, and that step writes nothing (storage, the
\* pending writes and DEFAULT_DOMAIN_CONFIG are unchanged); a remove goes on to
\* save only when the list it loaded holds the domain
C10_NotFoundWritesNothing ==
  [][/\ (last'.op = "remove" /\ last'.result = "domain_not_found")
          => /\ storage' = storage
             /\ setQueue' = setQueue
             /\ defaultCfg' = defaultCfg
             /\ \E readOk \in BOOLEAN :
                  ~includes(customDomainsOf(last'.ctx,
                                            loadDomainConfig(storage, readOk)),
                            last'.normalized)
     /\ (/\ Len(setQueue') > Len(setQueue)
         /\ setQueue'[Len(setQueue')].op = "remove")
           => \E readOk \in BOOLEAN :
                includes(customDomainsOf(setQueue'[Len(setQueue')].ctx,
                                         loadDomainConfig(storage, readOk)),
                         setQueue'[Len(setQueue')].normalized)]_vars

C10_Witness ==
  /\ last.op = "remove"
  /\ last.result = "domain_not_found"
  /\ storage.present
  /\ Len(storage.customDomains) >= 1

\* spellings of a domain that differ from it in case and surrounding
\* whitespace only
Shouted(d) ==
  [i \in 1..Len(d) |->
     IF d[i] \in Lower
       THEN UpperSeq[CHOOSE k \in 1..Len(LowerSeq) : LowerSeq[k] = d[i]]
       ELSE d[i]]

Spellings(d) ==
  {d, Shouted(d), <<" ">> \o d, d \o <<" ", "\t">>,
   <<"\n", " ">> \o Shouted(d) \o <<" ">>}

\* every spelling of every built-in domain passes the format test and is
\* found by the built-in test after normalization
SpellingsReachBuiltinTest ==
  \A i \in 1..Len(DEFAULT_DOMAINS) :
    \A s \in Spellings(DEFAULT_DOMAINS[i]) :
      /\ validateDomain(normalizeDomain(s))
      /\ includes(DEFAULT_DOMAINS, normalizeDomain(s))

\* C11: every spelling of every built-in domain reaches the built-in test and
\* is found by it; an add of a built-in domain is never suspended at the
\* permission request or at the save, and whenever one returns its result is
\* domain_already_builtin
C11_BuiltinAlwaysRejected ==
  /\ SpellingsReachBuiltinTest
  /\ \A call \in BagToSet(requesting) :
       ~includes(DEFAULT_DOMAINS, call.normalized)
  /\ \A i \in 1..Len(setQueue) :
       setQueue[i].op = "add" => ~includes(DEFAULT_DOMAINS, setQueue[i].normalized)
  /\ (last.op = "add" /\ includes(DEFAULT_DOMAINS, last.normalized))
       => last.result = "domain_already_builtin"

C11_Witness ==
  /\ last.op = "add"
  /\ last.result = "domain_already_builtin"
  /\ last.normalized = DEFAULT_DOMAINS[1]
  /\ storage.present
  /\ Len(storage.customDomains) >= 1

\* C12: the step in which an add returns invalid_domain_format,
\* domain_already_builtin or domain_already_exists changes nothing: no
\* permission request is pending or granted that was not before, no write is
\* issued, and storage and DEFAULT_DOMAIN_CONFIG are as they were
C12_RejectedAddNoEffect ==
  [][(/\ last'.op = "add"
      /\ last'.result \in {"invalid_domain_format", "domain_already_builtin",
                           "domain_already_exists"})
        => /\ storage' = storage
           /\ setQueue' = setQueue
           /\ requesting' = requesting
           /\ grantedRequests' = grantedRequests
           /\ defaultCfg' = defaultCfg]_vars

C12_Witness ==
  /\ last.op = "add"
  /\ last.result = "domain_already_exists"
  /\ storage.present
  /\ includes(storage.customDomains, last.normalized)

\* C17: no step of a remove (the one in which it returns, at once or after
\* its save, and the one in which it issues its save) changes the granted
\* origins, and no step at all takes a grant away
C17_RemoveKeepsGrants ==
  [][/\ (\/ last'.op = "remove"
         \/ /\ Len(setQueue') > Len(setQueue)
            /\ setQueue'[Len(setQueue')].op = "remove")
          => grantedRequests' = grantedRequests
     /\ grantedRequests \subseteq grantedRequests']_vars

C17_Witness ==
  /\ last.op = "remove"
  /\ last.result = "domain_removed"
  /\ storage.present
  /\ ~includes(storage.customDomains, last.normalized)
  /\ domainToUrlPatterns(last.normalized) \in grantedRequests

\* the stored entries that pass validateDomain, in their stored order
KeptAt(arr) == {i \in 1..Len(arr) : validateDomain(arr[i])}

Kept(arr) ==
  [k \in 1..Cardinality(KeptAt(arr)) |->
     arr[CHOOSE i \in KeptAt(arr) :
           Cardinality({j \in KeptAt(arr) : j <= i}) = k]]

\* C16: the step of a loadDomainConfig leaves storage as it is and issues no
\* write; with the key present and the read succeeding it returns the stored
\* entries that pass validateDomain, in their stored order
C16_LoadFiltersReadSide ==
  [][(last'.op = "load" /\ last.op = "none")
       => /\ storage' = storage
          /\ setQueue' = setQueue
          /\ last'.result = "present" => last'.ret = Kept(storage.customDomains)]_vars

C16_Witness ==
  /\ last.op = "load"
  /\ last.result = "present"
  /\ Len(last.ret) = 2
  /\ last.ret[1] # last.ret[2]
  /\ Len(storage.customDomains) = 3
  /\ ~validateDomain(storage.customDomains[2])

Https == <<"h", "t", "t", "p", "s", ":", "/", "/">>

\* C20: domainToUrlPatterns(d) is the pair "https://" d "/*", "https://*." d
\* "/*" in that order; getAllUrlPatterns(custom) is the patterns of
\* DEFAULT_DOMAINS in list order followed by those of custom in list order,
\* duplicates kept, of length 2 * (|DEFAULT_DOMAINS| + |custom|), and
\* getAllUrlPatterns of the empty list is the built-in patterns; the background
\* process obtains just this sequence for the list it loads
C20_PatternsExact ==
  LET custom == storage.customDomains
      all    == DEFAULT_DOMAINS \o custom
      out    == getAllUrlPatterns(custom)
      none   == getAllUrlPatterns(<<>>)
  IN  /\ \A i \in 1..Len(custom) :
           domainToUrlPatterns(custom[i]) =
             << Https \o custom[i] \o <<"/", "*">>,
                Https \o <<"*", ".">> \o custom[i] \o <<"/", "*">> >>
      /\ Len(out) = 2 * (Len(DEFAULT_DOMAINS) + Len(custom))
      /\ \A i \in 1..Len(all) :
           /\ out[2 * i - 1] = Https \o all[i] \o <<"/", "*">>
           /\ out[2 * i] = Https \o <<"*", ".">> \o all[i] \o <<"/", "*">>
      /\ Len(none) = 2 * Len(DEFAULT_DOMAINS)
      /\ \A i \in 1..Len(none) : none[i] = out[i]
      /\ (last.op = "patterns" /\ last.result = "present")
           => last.ret = getAllUrlPatterns(Kept(custom))

C20_Witness ==
  /\ last.op = "patterns"
  /\ last.result = "present"
  /\ Len(storage.customDomains) = 3
  /\ storage.customDomains[1] = storage.customDomains[3]
  /\ storage.customDomains[1] # storage.customDomains[2]
  /\ Len(last.ret) = 2 * Len(DEFAULT_DOMAINS) + 6

\* the subscriptions invoked by the event that was dispatched last
InvokedIds(ret) == [k \in 1..Len(ret) |-> ret[k].id]

\* C13: when the event is a deletion of the key in the sync area, every
\* callback is invoked with a config whose customDomains is empty
C13_DeletionDeliversEmpty ==
  (last.op = "event" /\ last.result = "sync_deleted")
    => \A k \in 1..Len(last.ret) : last.ret[k].customDomains = <<>>

\* C14: the dispatch of an event invokes the callbacks of exactly the
\* subscriptions active in the context, once each and in subscription order,
\* when the area is sync and the key is among the changes (whatever was
\* delivered before), and invokes none otherwise
C14_InvokedIffSyncKey ==
  [][(last'.op = "event" /\ last.op = "none")
       => /\ InvokedIds(last'.ret) =
               IF last'.result \in {"sync_set", "sync_deleted"}
                 THEN listeners[last'.ctx] ELSE <<>>
          /\ \A j, k \in 1..Len(last'.ret) :
               last'.ret[j].id = last'.ret[k].id => j = k
          /\ \A id \in SubId :
               delivered'[id] # delivered[id]
                 => includes(InvokedIds(last'.ret), id)]_vars

C14_Witness ==
  /\ last.op = "event"
  /\ last.result = "sync_set"
  /\ InvokedIds(last.ret) = <<1, 2>>
  /\ listeners[last.ctx] = <<1, 2>>

\* C18: a subscription whose handle has been called is never invoked again;
\* a first call of the handle takes only that listener out, a further call
\* changes nothing
C18_UnsubscribeStopsDelivery ==
  [][/\ \A id \in unsubscribed :
          /\ delivered'[id] = delivered[id]
          /\ last'.op = "event" => ~includes(InvokedIds(last'.ret), id)
          /\ \A c \in Ctx : ~includes(listeners'[c], id)
     /\ (last'.op = "unsubscribe" /\ last.op = "none")
          => /\ delivered' = delivered
             /\ \A c \in Ctx :
                  listeners'[c] = without(listeners[c], last'.ret[1])
             /\ last'.ret[1] \in unsubscribed => listeners' = listeners]_vars

C18_Witness ==
  /\ last.op = "event"
  /\ last.result = "sync_set"
  /\ 1 \in unsubscribed
  /\ InvokedIds(last.ret) = <<2>>
  /\ delivered[1] = NotYet

\* the customDomains list that is persisted
Persisted == IF storage.present THEN storage.customDomains ELSE <<>>

\* a page other than that of context c has just had an add or a remove succeed
ChangedElsewhere(c) ==
  /\ last.op \in {"add", "remove"}
  /\ last.result \in {"domain_added", "domain_removed"}
  /\ last.ctx # c

\* C15: when another context has successfully added or removed a domain while
\* the page of context c is open and idle, the list the page displays comes to
\* equal the persisted list, unless the user starts an add or a remove on
\* that page (or the calls considered are used up)
C15_PageFollowsOthers ==
  \A c \in Ctx :
    (ChangedElsewhere(c) /\ page[c].mounted /\ ~Loading(c))
      ~> (Displayed(c) = Persisted \/ Loading(c) \/ started = MaxOps)

\* the call that the step puts at the end of the set queue, if it does
Issues(op) ==
  /\ Len(setQueue') > Len(setQueue)
  /\ setQueue'[Len(setQueue')].op = op

Rejections ==
  {"invalid_domain_format", "domain_already_builtin", "domain_already_exists",
   "domain_not_found"}

\* C19: a call is rejected before it suspends, or suspends at the permission
\* request (add) and from there is denied or issues its set, or issues its
\* set at once (remove), and returns done when its set has completed; a call
\* leaves the permission request only by the answer to it and writes only
\* once its set is issued; with the backends answering, every suspended call
\* returns
C19_CallsRunToTerminal ==
  /\ [][/\ BagCardinality(requesting') > BagCardinality(requesting)
            => /\ \E c \in Ctx, input \in Inputs, readOk \in BOOLEAN :
                    AddCall(c, input, readOk)
               /\ setQueue' = setQueue /\ storage' = storage
        /\ BagCardinality(requesting') < BagCardinality(requesting)
            => /\ \E c \in Ctx, normalized \in Domains, granted \in BOOLEAN :
                    AddPermission(c, normalized, granted)
               /\ BagCardinality(requesting') = BagCardinality(requesting) - 1
               /\ Issues("add") \/ last'.result = "permission_denied"
               /\ storage' = storage
        /\ Issues("add")
            => BagCardinality(requesting') = BagCardinality(requesting) - 1
        /\ Issues("remove")
            => /\ requesting' = requesting
               /\ ValidOf[setQueue'[Len(setQueue')].normalized]
        /\ (last' # last /\ last'.result \in Rejections)
            => /\ last.op = "none" \/ JustAdded(last'.normalized)
               /\ UNCHANGED <<storage, requesting, setQueue>>
        /\ (last' # last /\ last'.result \in {"domain_added", "domain_removed", "threw"})
            => /\ setQueue # <<>>
               /\ Head(setQueue).op = last'.op
               /\ Len(setQueue') = Len(setQueue) - 1
        /\ storage' # storage
            => /\ setQueue # <<>>
               /\ storage' = [present |-> TRUE, customDomains |-> Head(setQueue).value]
               /\ last'.result \in {"domain_added", "domain_removed"}]_vars
  /\ (InFlight > 0) ~> (InFlight = 0 /\ last.op = "none")

C19_Witness ==
  /\ InFlight = 0
  /\ started = MaxOps
  /\ last.op = "add"
  /\ last.result = "domain_added"
  /\ Len(storage.customDomains) = 2

\* arr without its first entry equal to x
RECURSIVE withoutFirst(_, _)
withoutFirst(arr, x) ==
  IF arr = <<>> THEN <<>>
  ELSE IF Head(arr) = x THEN Tail(arr)
  ELSE <<Head(arr)>> \o withoutFirst(Tail(arr), x)

\* C24: when a call whose load saw the list that is persisted now has its set
\* succeed, an add leaves the persisted list with the normalized domain
\* appended and a remove leaves it without the matching entry; every other
\* entry, valid or not, stays in place
C24_OnlyTheDomainChanges ==
  [][(/\ last'.result \in {"domain_added", "domain_removed"}
      /\ last.op = "none"
      /\ setQueue # <<>>
      /\ Head(setQueue).seen = storage)
       => storage'.customDomains =
            IF last'.op = "add"
              THEN Append(Persisted, last'.normalized)
              ELSE withoutFirst(Persisted, last'.normalized)]_vars

\* host is domain or ends with a dot followed by domain
HostWithin(host, domain) ==
  \/ host = domain
  \/ /\ Len(host) > Len(domain) + 1
     /\ host[Len(host) - Len(domain)] = "."
     /\ \A i \in 1..Len(domain) : host[Len(host) - Len(domain) + i] = domain[i]
  \/ /\ Len(host) = Len(domain) + 1
     /\ host[1] = "."
     /\ \A i \in 1..Len(domain) : host[1 + i] = domain[i]

\* C23: the content script is injected only for an update with status
\* complete and a URL that parses, whose host is a domain of the customDomains
\* loaded for the update or a subdomain of one; never when that list is
\* empty, and for a host of a built-in domain only when the list holds it
C23_InjectsOnlyCustomHosts ==
  (last.op = "tab" /\ last.result = "injected")
    => /\ last.status = "complete"
       /\ last.url # <<>>
       /\ URL(last.url).ok
       /\ last.ret # <<>>
       /\ last.ret = Kept(storage.customDomains)
       /\ \E i \in 1..Len(last.ret) : HostWithin(URL(last.url).hostname, last.ret[i])

C23_Witness ==
  /\ last.op = "tab"
  /\ last.result = "injected"
  /\ last.url = UrlSub
  /\ ~includes(last.ret, <<"s", ".", "a", ".", "i", "o">>)
  /\ Len(last.ret) = 2

\* no invocation of setupContextMenus is under way and the items exist,
\* created by invocations whose loads succeeded
MenusSettled ==
  /\ setups = <<>>
  /\ \E id \in MenuItemId : menus[id].exists
  /\ \A id \in MenuItemId : menus[id].exists => menus[id].readOk

\* C21: once every rebuild has finished, each of the three items exists with
\* documentUrlPatterns equal to getAllUrlPatterns of the persisted customDomains
C21_MenusFollowConfig ==
  MenusSettled
    => \A id \in MenuItemId :
         /\ menus[id].exists
         /\ menus[id].documentUrlPatterns = getAllUrlPatterns(Persisted)

\* C22: an invocation of setupContextMenus creates its three items only when
\* no item of these ids exists
C22_NoDuplicateCreate ==
  [][(last'.op = "setup" /\ last.op = "none")
       => \A id \in MenuItemId : ~menus[id].exists]_vars

====
